---------------------------- MODULE Spec2Model ----------------------------
(***************************************************************************)
(* A model of server.js: the discussion scraper (absUrl, the selector      *)
(* cascades firstText / firstAttr / firstMatchFromLinks, the four field    *)
(* resolvers and the POST /scrape-discussion handler) and the preset store *)
(* (presetsCache, loadPresetsFromDisk, savePresetsToDisk, the /presets     *)
(* routes).                                                                *)
(*                                                                         *)
(* A JavaScript string is a sequence of one-character strings, so that     *)
(* trim, startsWith, includes, split and the regular expressions are       *)
(* computed on characters, as the code computes them.                      *)
(***************************************************************************)
EXTENDS Naturals, Sequences, FiniteSets

VARIABLES
    pc,            \* position of the POST /scrape-discussion handler
    body,          \* req.body.url as received
    url,           \* the handler's const url (server.js:263)
    html,          \* <<page>> once r.text() has resolved with a page (the
                   \* sequence of its elements), <<>> before
    res,           \* the responses sent for the scrape request, in order
    fetches,       \* number of upstream fetches issued
    arg,           \* argument of a direct absUrl call
    out,           \* result of a direct absUrl call
    phase,         \* "boot" until loadPresetsFromDisk has settled, then "listening"
    presetsCache,  \* the module-level presetsCache (server.js:94)
    file,          \* the file at PRESETS_PATH: missing, not JSON, or JSON
    inflight,      \* the fs.writeFile calls of POST /presets not yet settled
    replies,       \* responses sent to POST /presets requests, in order
    served,        \* <<presets>> of the last GET /presets response, <<>> before
    posts,         \* number of POST /presets requests received
    written        \* the presets of the last write to the file that succeeded
                   \* (of what the file held at startup, before any)

vars == <<pc, body, url, html, res, fetches, arg, out,
          phase, presetsCache, file, inflight, replies, served, posts,
          written>>

scrapeVars == <<pc, body, url, html, res, fetches>>
callVars == <<arg, out>>
presetVars == <<phase, presetsCache, file, inflight, replies, served, posts,
                written>>

(***************************************************************************)
(* Strings                                                                 *)
(***************************************************************************)

\* The whitespace String.prototype.trim strips and \s matches.
WS == {" ", "\n", "\t"}

\* \d
Digit == {"0", "1", "2", "3", "4", "5", "6", "7", "8", "9"}

\* \w
WordChar ==
    Digit \cup {"_"} \cup
    {"a", "b", "c", "d", "e", "f", "g", "h", "i", "j", "k", "l", "m",
     "n", "o", "p", "q", "r", "s", "t", "u", "v", "w", "x", "y", "z"} \cup
    {"A", "B", "C", "D", "E", "F", "G", "H", "I", "J", "K", "L", "M",
     "N", "O", "P", "Q", "R", "S", "T", "U", "V", "W", "X", "Y", "Z"}

\* An attribute the element does not carry: cheerio's .attr() gives undefined.
Absent == <<"undefined">>

\* s.slice(i - 1): the characters of s from position i on.
From(s, i) == SubSeq(s, i, Len(s))

\* s.startsWith(p)
StartsWith(s, p) == Len(s) >= Len(p) /\ SubSeq(s, 1, Len(p)) = p

\* s.includes(p), and the attribute selector [attr*="p"]
Includes(s, p) ==
    \E i \in 1..(Len(s) + 1) : StartsWith(From(s, i), p)

\* Number of leading characters of s that belong to class.
RECURSIVE Run(_, _)
Run(s, class) ==
    IF s # <<>> /\ Head(s) \in class THEN 1 + Run(Tail(s), class) ELSE 0

RECURSIVE Reverse(_)
Reverse(s) == IF s = <<>> THEN <<>> ELSE Append(Reverse(Tail(s)), Head(s))

\* s.trim()
Trim(s) ==
    LET a == From(s, Run(s, WS) + 1)
    IN  SubSeq(a, 1, Len(a) - Run(Reverse(a), WS))

\* s.replace(/\s+/g, " ")
RECURSIVE CollapseWs(_)
CollapseWs(s) ==
    IF s = <<>> THEN <<>>
    ELSE IF Head(s) \in WS
         THEN <<" ">> \o CollapseWs(From(s, Run(s, WS) + 1))
         ELSE <<Head(s)>> \o CollapseWs(Tail(s))

\* "http://", "https://", "//", "/" and the fixed forum origin of absUrl
HTTP == <<"h","t","t","p",":","/","/">>
HTTPS == <<"h","t","t","p","s",":","/","/">>
HTTPS_COLON == <<"h","t","t","p","s",":">>
ORIGIN == <<"h","t","t","p","s",":","/","/","7","s","a","g","e",".","c","o","m">>

(***************************************************************************)
(* The preset store (server.js:26-139)                                     *)
(*                                                                         *)
(* A preset list is the sequence of its items' ids; the ids of the model   *)
(* are non-empty and without surrounding whitespace, so that               *)
(* normalizePresets keeps them as they are (an empty id would get a        *)
(* Math.random() suffix).  The other fields of an item are copied with     *)
(* defaults and do not bear on what is compared here.                      *)
(***************************************************************************)

DEFAULT_PRESETS ==
    [moods |-> <<"motivated", "frustrated", "happy", "none">>,
     topics |-> <<"general", "lsat", "admissions">>,
     instructors |-> <<"instructor_1">>,
     difficulties |-> <<"basic", "intermediate", "advanced">>]

\* A field that is missing or not an array.
NoArray == <<"undefined">>

\* A value that is an object, with its four fields.
Obj(moods, topics, instructors, difficulties) ==
    [kind |-> "object", moods |-> moods, topics |-> topics,
     instructors |-> instructors, difficulties |-> difficulties]

\* A truthy value that is not an object (a string, a number, an array).
NonObject == [kind |-> "other"]

\* undefined, null, "", 0, false
Falsy == [kind |-> "falsy"]

HasId(list, id) == \E i \in 1..Len(list) : list[i] = id

normalizePresets(p) ==
    IF p.kind # "object" THEN DEFAULT_PRESETS
    ELSE LET moods == IF p.moods = NoArray THEN DEFAULT_PRESETS.moods ELSE p.moods
         IN  [moods |-> IF HasId(moods, "none") THEN moods
                        ELSE Append(moods, "none"),
              topics |-> IF p.topics = NoArray \/ p.topics = <<>>
                         THEN DEFAULT_PRESETS.topics ELSE p.topics,
              instructors |-> IF p.instructors = NoArray \/ p.instructors = <<>>
                              THEN DEFAULT_PRESETS.instructors ELSE p.instructors,
              difficulties |-> IF p.difficulties = NoArray \/ p.difficulties = <<>>
                               THEN DEFAULT_PRESETS.difficulties ELSE p.difficulties]

\* The file: absent, text that JSON.parse rejects, or the JSON of a value.
Missing == [kind |-> "missing"]
Garbage == [kind |-> "garbage"]
Json(value) == [kind |-> "json", value |-> value]

\* JSON.stringify(presetsCache, null, 2) of normalized presets
Stringify(presets) ==
    Json(Obj(presets.moods, presets.topics, presets.instructors,
             presets.difficulties))

\* What loadPresetsFromDisk makes of a file: the normalized presets it holds,
\* the defaults when it is missing or invalid.
Stored(f) == IF f.kind = "json" THEN normalizePresets(f.value) ELSE DEFAULT_PRESETS

\* The variables a specification does not use keep these values.
CallIdle == arg = Absent /\ out = Absent
ScrapeIdle ==
    pc = "off" /\ body = Absent /\ url = <<>> /\ html = <<>> /\ res = <<>>
    /\ fetches = 0
PresetsIdle ==
    /\ phase = "off" /\ presetsCache = DEFAULT_PRESETS /\ file = Missing
    /\ inflight = {} /\ replies = <<>> /\ served = <<>> /\ posts = 0
    /\ written = DEFAULT_PRESETS

\* Largest number of POST /presets requests.
MaxPosts == 2

\* req.body.presets of a POST /presets request.
Incoming ==
    {Falsy, NonObject,
     Obj(NoArray, NoArray, NoArray, NoArray),
     Obj(<<"happy">>, <<"lsat">>, NoArray, NoArray),
     Obj(<<"none", "calm">>, <<>>, <<"jo">>, <<"basic">>)}

\* The file the server finds at startup.
StartFiles ==
    {Missing, Garbage, Stringify(DEFAULT_PRESETS),
     Json(Obj(<<"happy">>, <<>>, NoArray, NoArray)), Json(NonObject)}

\* loadPresetsFromDisk, lines 98-101: the file is read and parsed.
LoadFromDisk ==
    /\ phase = "boot"
    /\ file.kind = "json"
    /\ presetsCache' = normalizePresets(file.value)
    /\ phase' = "listening"
    /\ UNCHANGED <<file, inflight, replies, served, posts, written>>
    /\ UNCHANGED <<scrapeVars, callVars>>

\* loadPresetsFromDisk, lines 102-107: the file is missing or invalid; the
\* defaults are kept and written.
LoadDefaults ==
    /\ phase = "boot"
    /\ file.kind # "json"
    /\ presetsCache' = DEFAULT_PRESETS
    /\ file' = Stringify(DEFAULT_PRESETS)
    /\ written' = DEFAULT_PRESETS
    /\ phase' = "listening"
    /\ UNCHANGED <<inflight, replies, served, posts>>
    /\ UNCHANGED <<scrapeVars, callVars>>

\* loadPresetsFromDisk, lines 108-110: writing the defaults fails too; the
\* file stays as it was or is left truncated.
LoadDefaultsUnwritten ==
    /\ phase = "boot"
    /\ file.kind # "json"
    /\ presetsCache' = DEFAULT_PRESETS
    /\ file' \in {file, Garbage}
    /\ phase' = "listening"
    /\ UNCHANGED <<inflight, replies, served, posts, written>>
    /\ UNCHANGED <<scrapeVars, callVars>>

\* GET /presets (server.js:120-126)
GetPresets ==
    /\ phase = "listening"
    /\ served' = <<presetsCache>>
    /\ UNCHANGED <<phase, presetsCache, file, inflight, replies, posts, written>>
    /\ UNCHANGED <<scrapeVars, callVars>>

\* POST /presets up to its await (server.js:128-134 and savePresetsToDisk,
\* 114-116): a missing body.presets is refused; otherwise presetsCache is
\* replaced and fs.writeFile is started with its JSON.
PostPresets ==
    /\ phase = "listening"
    /\ posts < MaxPosts
    /\ posts' = posts + 1
    /\ \E incoming \in Incoming :
          IF incoming = Falsy
          THEN /\ replies' = Append(replies,
                      [id |-> posts + 1, status |-> 400, ok |-> FALSE])
               /\ UNCHANGED <<presetsCache, inflight>>
          ELSE /\ presetsCache' = normalizePresets(incoming)
               /\ inflight' = inflight \cup
                      {[id |-> posts + 1,
                        data |-> Stringify(normalizePresets(incoming))]}
               /\ UNCHANGED replies
    /\ UNCHANGED <<phase, file, served, written>>
    /\ UNCHANGED <<scrapeVars, callVars>>

\* fs.writeFile of request w settles: the file holds the request's JSON, or,
\* when another writeFile to the same path is under way, possibly a mix of
\* the two; the request is answered { ok: true } (server.js:135).
WriteSettles ==
    /\ \E w \in inflight :
          /\ file' \in IF inflight = {w} THEN {w.data} ELSE {w.data, Garbage}
          /\ written' = Stored(w.data)
          /\ inflight' = inflight \ {w}
          /\ replies' = Append(replies, [id |-> w.id, status |-> 200, ok |-> TRUE])
    /\ UNCHANGED <<phase, presetsCache, served, posts>>
    /\ UNCHANGED <<scrapeVars, callVars>>

\* fs.writeFile of request w rejects: the file stays as it was or is left
\* truncated; the request is answered 500 (server.js:136-138).
WriteRejects ==
    /\ \E w \in inflight :
          /\ file' \in {file, Garbage}
          /\ inflight' = inflight \ {w}
          /\ replies' = Append(replies, [id |-> w.id, status |-> 500, ok |-> FALSE])
    /\ UNCHANGED <<phase, presetsCache, served, posts, written>>
    /\ UNCHANGED <<scrapeVars, callVars>>

PresetsInit ==
    /\ phase = "boot"
    /\ presetsCache = DEFAULT_PRESETS
    /\ file \in StartFiles
    /\ inflight = {}
    /\ replies = <<>>
    /\ served = <<>>
    /\ posts = 0
    /\ written = Stored(file)
    /\ ScrapeIdle /\ CallIdle

PresetsNext ==
    \/ LoadFromDisk
    \/ LoadDefaults
    \/ LoadDefaultsUnwritten
    \/ GetPresets
    \/ PostPresets
    \/ WriteSettles
    \/ WriteRejects

\* The server from startup on, with its /presets routes.
SpecPresets == PresetsInit /\ [][PresetsNext]_vars

(***************************************************************************)
(* absUrl (server.js:142-150)                                              *)
(***************************************************************************)

\* A slip: the reference is tested and returned as received, without trim().
absUrlUntrimmed(maybeRelative) ==
    LET s == maybeRelative
    IN  IF Trim(s) = <<>> THEN <<>>
        ELSE IF StartsWith(s, HTTP) \/ StartsWith(s, HTTPS) THEN s
        ELSE IF StartsWith(s, <<"/", "/">>) THEN HTTPS_COLON \o s
        ELSE IF StartsWith(s, <<"/">>) THEN ORIGIN \o s
        ELSE s

absUrl(maybeRelative) ==
    IF maybeRelative = <<>> \/ maybeRelative = Absent THEN <<>>
    ELSE LET s == Trim(maybeRelative)
         IN  IF s = <<>> THEN <<>>
             ELSE IF StartsWith(s, HTTP) \/ StartsWith(s, HTTPS) THEN s
             ELSE IF StartsWith(s, <<"/", "/">>) THEN HTTPS_COLON \o s
             ELSE IF StartsWith(s, <<"/">>) THEN ORIGIN \o s
             ELSE s


(***************************************************************************)
(* The parsed document                                                     *)
(*                                                                         *)
(* cheerio.load(html) is the external parser.  A page is the sequence of   *)
(* its a, img and time elements and its other text, in document order; an  *)
(* element carries the attributes the selectors of server.js read, and     *)
(* ctx, the class of an element enclosing it (Absent when none does).      *)
(***************************************************************************)

El(tag, href, cls, alt, src, srcset, datetime, text, ctx) ==
    [tag |-> tag, href |-> href, cls |-> cls, alt |-> alt, src |-> src,
     srcset |-> srcset, datetime |-> datetime, text |-> text, ctx |-> ctx]

A(href, text, ctx) ==
    El("a", href, Absent, Absent, Absent, Absent, Absent, text, ctx)

Img(cls, alt, src, srcset) ==
    El("img", Absent, cls, alt, src, srcset, Absent, <<>>, Absent)

Time(datetime, text) ==
    El("time", Absent, Absent, Absent, Absent, Absent, datetime, text, Absent)

\* Another element with a class, such as <span class="author">.
Span(cls, text) ==
    El("span", Absent, cls, Absent, Absent, Absent, Absent, text, Absent)

\* Text of the page outside its elements.
Text(text) ==
    El("#text", Absent, Absent, Absent, Absent, Absent, Absent, text, Absent)

\* Constant strings of the selectors and tests of server.js
DISC == <<"/","d","i","s","c","u","s","s","i","o","n","/">>
DISC_ROOT == <<"/","d","i","s","c","u","s","s","i","o","n">>
DISC_PROFILE ==
    <<"/","d","i","s","c","u","s","s","i","o","n","/","p","r","o","f","i","l","e","/">>
PROFILE == <<"p","r","o","f","i","l","e">>
USERLINK == <<"U","s","e","r","L","i","n","k">>
USER == <<"u","s","e","r">>
AVATAR_UC == <<"A","v","a","t","a","r">>
AVATAR_LC == <<"a","v","a","t","a","r">>
IMAGEKIT == <<"i","m","a","g","e","k","i","t",".","i","o">>

\* [attr*="p"] and [attr^="p"]: the element has the attribute and its value
\* contains, or begins with, p.
AttrIncludes(v, p) == v # Absent /\ Includes(v, p)
AttrStartsWith(v, p) == v # Absent /\ StartsWith(v, p)

\* Whether element e matches the CSS selector sel (the selectors server.js uses).
Matches(sel, e) ==
    CASE sel = "a" -> e.tag = "a"
      [] sel = "a[href^=\"/discussion/\"]" ->
            e.tag = "a" /\ AttrStartsWith(e.href, DISC)
      [] sel = "a[href^=\"/discussion/profile/\"]" ->
            e.tag = "a" /\ AttrStartsWith(e.href, DISC_PROFILE)
      [] sel = "a[href*=\"/discussion/profile/\"]" ->
            e.tag = "a" /\ AttrIncludes(e.href, DISC_PROFILE)
      [] sel = "[class*=\"UserLink\"] a" ->
            e.tag = "a" /\ AttrIncludes(e.ctx, USERLINK)
      [] sel = "[class*=\"user\"] a[href*=\"profile\"]" ->
            e.tag = "a" /\ AttrIncludes(e.ctx, USER) /\ AttrIncludes(e.href, PROFILE)
      [] sel = "img[class*=\"Avatar\"][src]" ->
            e.tag = "img" /\ AttrIncludes(e.cls, AVATAR_UC) /\ e.src # Absent
      [] sel = "img[class*=\"avatar\"][src]" ->
            e.tag = "img" /\ AttrIncludes(e.cls, AVATAR_LC) /\ e.src # Absent
      [] sel = "img[alt*=\"Avatar\"][src]" ->
            e.tag = "img" /\ AttrIncludes(e.alt, AVATAR_UC) /\ e.src # Absent
      [] sel = "img[alt*=\"avatar\"][src]" ->
            e.tag = "img" /\ AttrIncludes(e.alt, AVATAR_LC) /\ e.src # Absent
      [] sel = "img[src*=\"imagekit.io\"]" ->
            e.tag = "img" /\ AttrIncludes(e.src, IMAGEKIT)
      [] sel = "img[class*=\"Avatar\"][srcset]" ->
            e.tag = "img" /\ AttrIncludes(e.cls, AVATAR_UC) /\ e.srcset # Absent
      [] sel = "img[class*=\"avatar\"][srcset]" ->
            e.tag = "img" /\ AttrIncludes(e.cls, AVATAR_LC) /\ e.srcset # Absent
      [] sel = "img[alt*=\"Avatar\"][srcset]" ->
            e.tag = "img" /\ AttrIncludes(e.alt, AVATAR_UC) /\ e.srcset # Absent
      [] sel = "img[alt*=\"avatar\"][srcset]" ->
            e.tag = "img" /\ AttrIncludes(e.alt, AVATAR_LC) /\ e.srcset # Absent
      [] sel = "img[srcset*=\"imagekit.io\"]" ->
            e.tag = "img" /\ AttrIncludes(e.srcset, IMAGEKIT)
      [] sel = "time[datetime]" -> e.tag = "time" /\ e.datetime # Absent
      [] sel = "time" -> e.tag = "time"
      [] OTHER -> FALSE

\* $(sel): the elements matching sel, in document order.
Select(els, sel) == SelectSeq(els, LAMBDA e : Matches(sel, e))

\* $(...).first().text(): "" for an empty selection.
FirstTextOf(sel) == IF sel = <<>> THEN <<>> ELSE Head(sel).text

\* $(...).first().attr(attr): undefined for an empty selection.
FirstAttrOf(sel, attr) ==
    IF sel = <<>> THEN Absent
    ELSE CASE attr = "href" -> Head(sel).href
           [] attr = "src" -> Head(sel).src
           [] attr = "srcset" -> Head(sel).srcset
           [] attr = "datetime" -> Head(sel).datetime

(***************************************************************************)
(* firstText, firstAttr, firstMatchFromLinks, parseFirstUrlFromSrcset      *)
(* (server.js:152-184)                                                     *)
(***************************************************************************)

RECURSIVE firstText(_, _)
firstText(els, selectors) ==
    IF selectors = <<>> THEN <<>>
    ELSE LET t == Trim(FirstTextOf(Select(els, Head(selectors))))
         IN  IF t # <<>> THEN t ELSE firstText(els, Tail(selectors))

RECURSIVE firstAttr(_, _, _)
firstAttr(els, selectors, attr) ==
    IF selectors = <<>> THEN <<>>
    ELSE LET v == FirstAttrOf(Select(els, Head(selectors)), attr)
         IN  IF v # Absent /\ v # <<>> /\ Trim(v) # <<>> THEN Trim(v)
             ELSE firstAttr(els, Tail(selectors), attr)

\* ($(el).attr("href") || "").trim()
HrefOf(e) == IF e.href = Absent THEN <<>> ELSE Trim(e.href)

\* The loop of firstMatchFromLinks over links, for the predicate
\* href.startsWith("/discussion/profile/") findUsername passes.
RECURSIVE ProfileLinkLoop(_)
ProfileLinkLoop(links) ==
    IF links = <<>> THEN <<>>
    ELSE LET el == Head(links)
             txt == Trim(el.text)
         IN  IF StartsWith(HrefOf(el), DISC_PROFILE) /\ txt # <<>> THEN txt
             ELSE ProfileLinkLoop(Tail(links))

firstMatchFromLinks(els) == ProfileLinkLoop(Select(els, "a"))

\* The characters of s before its first character of class.
RECURSIVE UpTo(_, _)
UpTo(s, class) ==
    IF s = <<>> \/ Head(s) \in class THEN <<>>
    ELSE <<Head(s)>> \o UpTo(Tail(s), class)

parseFirstUrlFromSrcset(srcset) ==
    IF srcset = <<>> THEN <<>>
    ELSE LET first == Trim(UpTo(srcset, {","}))
         IN  UpTo(first, WS)

(***************************************************************************)
(* The page's text, which findAvatar and findWhen search with regular      *)
(* expressions: the markup of the elements followed by the remaining text. *)
(***************************************************************************)

Markup(name, v) ==
    IF v = Absent THEN <<>> ELSE <<" ">> \o name \o <<"=", "\"">> \o v \o <<"\"">>

Outer(e) ==
    CASE e.tag = "a" ->
            <<"<","a">> \o Markup(<<"h","r","e","f">>, e.href) \o <<">">>
            \o e.text \o <<"<","/","a",">">>
      [] e.tag = "img" ->
            <<"<","i","m","g">> \o Markup(<<"c","l","a","s","s">>, e.cls)
            \o Markup(<<"a","l","t">>, e.alt) \o Markup(<<"s","r","c">>, e.src)
            \o Markup(<<"s","r","c","s","e","t">>, e.srcset) \o <<">">>
      [] e.tag = "time" ->
            <<"<","t","i","m","e">>
            \o Markup(<<"d","a","t","e","t","i","m","e">>, e.datetime) \o <<">">>
            \o e.text \o <<"<","/","t","i","m","e",">">>
      [] e.tag = "span" ->
            <<"<","s","p","a","n">> \o Markup(<<"c","l","a","s","s">>, e.cls) \o <<">">>
            \o e.text \o <<"<","/","s","p","a","n",">">>
      [] e.tag = "#text" -> e.text

OuterHtml(e) ==
    IF e.ctx = Absent THEN Outer(e)
    ELSE <<"<","d","i","v">> \o Markup(<<"c","l","a","s","s">>, e.ctx) \o <<">">>
         \o Outer(e) \o <<"<","/","d","i","v",">">>

RECURSIVE Serialize(_)
Serialize(els) ==
    IF els = <<>> THEN <<>> ELSE OuterHtml(Head(els)) \o Serialize(Tail(els))

\* The text r.text() resolves to for the page with elements els.
HtmlText(els) == Serialize(els)

(***************************************************************************)
(* The regular expressions of findAvatar and findWhen, all with flag i     *)
(***************************************************************************)

\* c.toLowerCase() for the letters A-Z; flag i compares letters this way.
LowerOf ==
    [c \in {"A", "B", "C", "D", "E", "F", "G", "H", "I", "J", "K", "L", "M",
            "N", "O", "P", "Q", "R", "S", "T", "U", "V", "W", "X", "Y", "Z"} |->
        CASE c = "A" -> "a" [] c = "B" -> "b" [] c = "C" -> "c" [] c = "D" -> "d"
          [] c = "E" -> "e" [] c = "F" -> "f" [] c = "G" -> "g" [] c = "H" -> "h"
          [] c = "I" -> "i" [] c = "J" -> "j" [] c = "K" -> "k" [] c = "L" -> "l"
          [] c = "M" -> "m" [] c = "N" -> "n" [] c = "O" -> "o" [] c = "P" -> "p"
          [] c = "Q" -> "q" [] c = "R" -> "r" [] c = "S" -> "s" [] c = "T" -> "t"
          [] c = "U" -> "u" [] c = "V" -> "v" [] c = "W" -> "w" [] c = "X" -> "x"
          [] c = "Y" -> "y" [] c = "Z" -> "z"]

LowerChar(c) == IF c \in DOMAIN LowerOf THEN LowerOf[c] ELSE c

\* Whether the literal lit (in lower case) matches h at position i under flag i.
LitAt(h, i, lit) ==
    /\ i + Len(lit) - 1 <= Len(h)
    /\ \A k \in 1..Len(lit) : LowerChar(h[i + k - 1]) = lit[k]

\* Number of characters of h from position i on that belong to class: the
\* length a greedy class+ takes at i.
RECURSIVE RunAt(_, _, _)
RunAt(h, i, class) ==
    IF i <= Len(h) /\ h[i] \in class THEN 1 + RunAt(h, i + 1, class) ELSE 0

\* Number of characters of h from position i on that are outside class.
RECURSIVE RunNotAt(_, _, _)
RunNotAt(h, i, class) ==
    IF i <= Len(h) /\ h[i] \notin class THEN 1 + RunNotAt(h, i + 1, class) ELSE 0

\* String.prototype.match found nothing: null.
NoMatch == <<"null">>

IK_HTTP ==
    <<"h","t","t","p",":","/","/","i","k",".","i","m","a","g","e","k","i","t",".","i","o","/">>
IK_HTTPS ==
    <<"h","t","t","p","s",":","/","/","i","k",".","i","m","a","g","e","k","i","t",".","i","o","/">>

\* Length of the match of /https?:\/\/ik\.imagekit\.io\/[^"' )]+/i at position i
\* of h, 0 when it does not match there.
CdnAt(h, i) ==
    LET p == IF LitAt(h, i, IK_HTTPS) THEN Len(IK_HTTPS)
             ELSE IF LitAt(h, i, IK_HTTP) THEN Len(IK_HTTP)
             ELSE 0
        r == IF p = 0 THEN 0 ELSE RunNotAt(h, i + p, {"\"", "'", " ", ")"})
    IN  IF p > 0 /\ r > 0 THEN p + r ELSE 0

\* \b before position i of h, where h[i] is a word character.
WordStart(h, i) == i = 1 \/ h[i - 1] \notin WordChar

\* Length of the match of \d+\s+\w+\s+ago\b at position i of h, 0 when none.
\* Each class run is followed by a character outside the class, so the greedy
\* run is the only length the run can have in a match.
AgoAt(h, i) ==
    LET d  == RunAt(h, i, Digit)
        s1 == RunAt(h, i + d, WS)
        w  == RunAt(h, i + d + s1, WordChar)
        s2 == RunAt(h, i + d + s1 + w, WS)
        j  == i + d + s1 + w + s2
    IN  IF /\ d > 0 /\ s1 > 0 /\ w > 0 /\ s2 > 0
           /\ LitAt(h, j, <<"a", "g", "o">>)
           /\ (j + 3 > Len(h) \/ h[j + 3] \notin WordChar)
        THEN j + 3 - i
        ELSE 0

\* Length of the match of \bEdited\s+\d+\s+\w+\s+ago\b at position i, 0 when none.
EditedAt(h, i) ==
    IF ~(WordStart(h, i) /\ LitAt(h, i, <<"e","d","i","t","e","d">>)) THEN 0
    ELSE LET s0 == RunAt(h, i + 6, WS)
             n  == IF s0 = 0 THEN 0 ELSE AgoAt(h, i + 6 + s0)
         IN  IF n > 0 THEN 6 + s0 + n ELSE 0

\* Length of the match of \b\d+\s+\w+\s+ago\b at position i, 0 when none.
BareAgoAt(h, i) == IF WordStart(h, i) THEN AgoAt(h, i) ELSE 0

Min(S) == CHOOSE x \in S : \A y \in S : x <= y

\* html.match(/https?:\/\/ik\.imagekit\.io\/[^"' )]+/i): m[0] of the leftmost
\* match, or null.
MatchCdn(h) ==
    LET at == {i \in 1..Len(h) : CdnAt(h, i) > 0}
    IN  IF at = {} THEN NoMatch
        ELSE SubSeq(h, Min(at), Min(at) + CdnAt(h, Min(at)) - 1)

\* html.match(/\bEdited\s+\d+\s+\w+\s+ago\b/i): m[0], or null.
MatchEdited(h) ==
    LET at == {i \in 1..Len(h) : EditedAt(h, i) > 0}
    IN  IF at = {} THEN NoMatch
        ELSE SubSeq(h, Min(at), Min(at) + EditedAt(h, Min(at)) - 1)

\* html.match(/\b\d+\s+\w+\s+ago\b/i): m[0], or null.
MatchAgo(h) ==
    LET at == {i \in 1..Len(h) : BareAgoAt(h, i) > 0}
    IN  IF at = {} THEN NoMatch
        ELSE SubSeq(h, Min(at), Min(at) + BareAgoAt(h, Min(at)) - 1)

(***************************************************************************)
(* findTopic, findUsername, findAvatar, findWhen (server.js:186-258)       *)
(***************************************************************************)

\* /^\/discussion\/\d+\/?/.test(href)
PermalinkTest(href) ==
    StartsWith(href, DISC) /\ Run(From(href, Len(DISC) + 1), Digit) > 0

\* The filter callback of findTopic: whether link a is kept.
TopicFilter(a) ==
    LET href == HrefOf(a)
    IN  /\ href # <<>>
        /\ ~StartsWith(href, DISC_PROFILE)
        /\ ~(href = DISC_ROOT \/ href = DISC)
        /\ ~PermalinkTest(href)

\* A slip: the href is passed on as read, undefined when no link is kept.
findTopicRaw(els) ==
    LET topicLink ==
            SelectSeq(Select(els, "a[href^=\"/discussion/\"]"), TopicFilter)
    IN  [topic |-> Trim(FirstTextOf(topicLink)),
         topicUrl |-> FirstAttrOf(topicLink, "href")]

findTopic(els) ==
    LET topicLink ==
            SelectSeq(Select(els, "a[href^=\"/discussion/\"]"), TopicFilter)
        href == FirstAttrOf(topicLink, "href")
    IN  [topic |-> Trim(FirstTextOf(topicLink)),
         topicUrl |-> absUrl(IF href = Absent THEN <<>> ELSE href)]

\* A slip: the scan of all links is left out.
findUsernameNoScan(els) ==
    Trim(firstText(els, <<"a[href^=\"/discussion/profile/\"]",
                          "a[href*=\"/discussion/profile/\"]",
                          "[class*=\"UserLink\"] a",
                          "[class*=\"user\"] a[href*=\"profile\"]">>))

findUsername(els) ==
    LET cascade ==
            firstText(els, <<"a[href^=\"/discussion/profile/\"]",
                             "a[href*=\"/discussion/profile/\"]",
                             "[class*=\"UserLink\"] a",
                             "[class*=\"user\"] a[href*=\"profile\"]">>)
        username == IF cascade # <<>> THEN cascade ELSE firstMatchFromLinks(els)
    IN  Trim(username)

\* A slip: the CDN-hosted src is tried before the avatar-hinted src.
findAvatarCdnFirst(els, h) ==
    LET src1 == firstAttr(els, <<"img[class*=\"Avatar\"][src]",
                                 "img[class*=\"avatar\"][src]",
                                 "img[alt*=\"Avatar\"][src]",
                                 "img[alt*=\"avatar\"][src]">>, "src")
        src2 == firstAttr(els, <<"img[src*=\"imagekit.io\"]">>, "src")
        srcset == firstAttr(els, <<"img[class*=\"Avatar\"][srcset]",
                                   "img[class*=\"avatar\"][srcset]",
                                   "img[alt*=\"Avatar\"][srcset]",
                                   "img[alt*=\"avatar\"][srcset]",
                                   "img[srcset*=\"imagekit.io\"]">>, "srcset")
        u == parseFirstUrlFromSrcset(srcset)
        m == MatchCdn(h)
    IN  IF src2 # <<>> THEN absUrl(src2)
        ELSE IF src1 # <<>> THEN absUrl(src1)
        ELSE IF u # <<>> THEN absUrl(u)
        ELSE IF m # NoMatch THEN m
        ELSE <<>>

findAvatar(els, h) ==
    LET src1 == firstAttr(els, <<"img[class*=\"Avatar\"][src]",
                                 "img[class*=\"avatar\"][src]",
                                 "img[alt*=\"Avatar\"][src]",
                                 "img[alt*=\"avatar\"][src]">>, "src")
        src2 == firstAttr(els, <<"img[src*=\"imagekit.io\"]">>, "src")
        srcset == firstAttr(els, <<"img[class*=\"Avatar\"][srcset]",
                                   "img[class*=\"avatar\"][srcset]",
                                   "img[alt*=\"Avatar\"][srcset]",
                                   "img[alt*=\"avatar\"][srcset]",
                                   "img[srcset*=\"imagekit.io\"]">>, "srcset")
        u == parseFirstUrlFromSrcset(srcset)
        m == MatchCdn(h)
    IN  IF src1 # <<>> THEN absUrl(src1)
        ELSE IF src2 # <<>> THEN absUrl(src2)
        ELSE IF u # <<>> THEN absUrl(u)
        ELSE IF m # NoMatch THEN m
        ELSE <<>>

\* A slip: the bare "N unit ago" pattern is tried before the "Edited" one.
findWhenAgoFirst(els, h) ==
    LET attr == firstAttr(els, <<"time[datetime]">>, "datetime")
        when == IF attr # <<>> THEN attr ELSE firstText(els, <<"time">>)
        m == IF MatchAgo(h) # NoMatch THEN MatchAgo(h) ELSE MatchEdited(h)
    IN  IF when # <<>> THEN Trim(CollapseWs(when))
        ELSE IF m # NoMatch THEN Trim(CollapseWs(m))
        ELSE <<>>

findWhen(els, h) ==
    LET attr == firstAttr(els, <<"time[datetime]">>, "datetime")
        when == IF attr # <<>> THEN attr ELSE firstText(els, <<"time">>)
        m == IF MatchEdited(h) # NoMatch THEN MatchEdited(h) ELSE MatchAgo(h)
    IN  IF when # <<>> THEN Trim(CollapseWs(when))
        ELSE IF m # NoMatch THEN Trim(CollapseWs(m))
        ELSE <<>>

(***************************************************************************)
(* POST /scrape-discussion (server.js:261-327)                             *)
(***************************************************************************)

\* "https://7sage.com/discussion/"
URL_PREFIX == ORIGIN \o DISC

\* The size-parameterized image service and the fixed size an upscale step
\* would request from it.
SIZED_HOST ==
    <<"h","t","t","p","s",":","/","/","g","r","a","v","a","t","a","r",".","c","o","m","/">>
SIZE_QUERY == <<"?","s","=","1","9","2">>

\* upscale: the URL with its size parameter set to the fixed size when the
\* URL is on the size-parameterized host, the URL itself otherwise.
Upscale(u) ==
    IF StartsWith(u, SIZED_HOST) THEN UpTo(u, {"?"}) \o SIZE_QUERY ELSE u

\* A variant that passes the avatar through Upscale before it is returned.
ScrapeDataUpscaled(u, els) ==
    LET h == HtmlText(els)
        t == findTopic(els)
    IN  [url |-> u,
         title |-> <<>>,
         topic |-> t.topic,
         topicUrl |-> t.topicUrl,
         username |-> findUsername(els),
         avatar |-> Upscale(findAvatar(els, h)),
         when |-> findWhen(els, h)]

\* The data object of the 200 response (server.js:289-322).
ScrapeData(u, els) ==
    LET h == HtmlText(els)
        t == findTopic(els)
    IN  [url |-> u,
         title |-> <<>>,
         topic |-> t.topic,
         topicUrl |-> t.topicUrl,
         username |-> findUsername(els),
         avatar |-> findAvatar(els, h),
         when |-> findWhen(els, h)]

Failure(status, error) == [status |-> status, ok |-> FALSE, error |-> error]
Success(data) == [status |-> 200, ok |-> TRUE, data |-> data]

\* String(req.body?.url || "").trim()
UrlOf(b) == IF b = Absent THEN <<>> ELSE Trim(b)

\* server.js:263-279: the url is read and checked; a fetch is issued only
\* for a url that passes.
Validate ==
    /\ pc = "start"
    /\ url' = UrlOf(body)
    /\ IF ~StartsWith(UrlOf(body), URL_PREFIX)
       THEN /\ res' = Append(res, Failure(400,
                         "URL must start with https://7sage.com/discussion/"))
            /\ pc' = "done"
            /\ UNCHANGED fetches
       ELSE /\ fetches' = fetches + 1
            /\ pc' = "fetch"
            /\ UNCHANGED res
    /\ UNCHANGED <<body, html>>
    /\ UNCHANGED <<callVars, presetVars>>

\* await fetch(url) rejects (DNS failure, refused connection, reset): the
\* exception reaches the catch of server.js:324.
FetchRejects ==
    /\ pc = "fetch"
    /\ res' = Append(res, Failure(500, "request failed"))
    /\ pc' = "done"
    /\ UNCHANGED <<body, url, html, fetches>>
    /\ UNCHANGED <<callVars, presetVars>>

\* The upstream answers with a status outside 200-299 (server.js:281-283).
FetchNotOk ==
    /\ pc = "fetch"
    /\ \E error \in {"Fetch failed: 404", "Fetch failed: 503"} :
          res' = Append(res, Failure(502, error))
    /\ pc' = "done"
    /\ UNCHANGED <<body, url, html, fetches>>
    /\ UNCHANGED <<callVars, presetVars>>

\* The upstream answers with an ok status; the handler awaits r.text().
FetchOk ==
    /\ pc = "fetch"
    /\ pc' = "text"
    /\ UNCHANGED <<body, url, html, res, fetches>>
    /\ UNCHANGED <<callVars, presetVars>>

\* await r.text() rejects (the body stream fails): caught at server.js:324.
TextRejects ==
    /\ pc = "text"
    /\ res' = Append(res, Failure(500, "body stream failed"))
    /\ pc' = "done"
    /\ UNCHANGED <<body, url, html, fetches>>
    /\ UNCHANGED <<callVars, presetVars>>

(***************************************************************************)
(* The requests and pages the model is run on                              *)
(***************************************************************************)

\* Largest number of elements of a generated page.
MaxEls == 2

\* Largest number of whitespace characters around a reference given to absUrl.
MaxPad == 1

SeqsUpTo(S, n) == UNION {[1..k -> S] : k \in 0..n}

VALID_URL == URL_PREFIX \o <<"1">>

\* req.body.url: missing, empty, accepted (bare and padded) and refused.
Bodies ==
    {Absent, <<>>, VALID_URL, <<" ">> \o VALID_URL \o <<"\n">>,
     HTTP \o <<"7","s","a","g","e",".","c","o","m">> \o DISC \o <<"1">>,
     ORIGIN \o DISC_ROOT}

PROFILE_HREF == DISC_PROFILE \o <<"j","o">>
TOPIC_HREF == DISC \o <<"c","a","t","\n">>
USERLINK_CLASS == <<"U","s","e","r","L","i","n","k","-","x">>

\* Links: profile links, topic links, a permalink, a link whose segment after
\* /discussion/ begins with digits, the discussion root, links without href,
\* links inside elements with a user class, and an author element.
LinkKinds ==
    {A(h, t, Absent) :
        h \in {PROFILE_HREF, TOPIC_HREF}, t \in {<<>>, <<"A">>, <<" ","B"," ">>}}
    \cup
    {A(<<" ">> \o PROFILE_HREF, <<"C">>, Absent),
     A(DISC \o <<"1","2","/","p">>, <<"P">>, Absent),
     A(DISC \o <<"1","2","a">>, <<"Q">>, Absent),
     A(DISC \o <<" ">>, <<"R">>, Absent),
     A(Absent, <<"S">>, Absent),
     A(<<"/","u","/","p","r","o","f","i","l","e","/","j","o">>, <<"U">>,
       <<"u","s","e","r","-","c","a","r","d">>),
     A(Absent, <<"D">>, USERLINK_CLASS),
     A(Absent, <<>>, USERLINK_CLASS),
     Span(<<"a","u","t","h","o","r">>, <<"E","v","e">>)}

GRAVATAR_SRC ==
    <<"h","t","t","p","s",":","/","/","g","r","a","v","a","t","a","r",".","c","o","m",
      "/","a","?","s","=","8","0">>

CDN_TEXT ==
    <<"s","e","e"," ","H","T","T","P","S",":","/","/","i","k",".","i","m","a","g","e",
      "k","i","t",".","i","o","/","r","?","x","=","1",")"," ","y">>

SRCSET_TWO ==
    <<"/","s",".","p","n","g"," ","2","x",","," ","/","t",".","p","n","g"," ","3","x">>

SRCSET_CDN ==
    <<"/","/","i","k",".","i","m","a","g","e","k","i","t",".","i","o","/","s"," ","1","x">>

MY_AVATAR == <<"m","y"," ","a","v","a","t","a","r">>

\* Images: with a class hint, an alt hint or none; with a src (blank,
\* path-relative, root-relative, on the CDN, on another host) or a srcset
\* (with an empty first entry, with two entries, on the CDN); and text that
\* holds a CDN URL.
ImgKinds ==
    {Img(AVATAR_UC, Absent, s, Absent) :
        s \in {<<>>, <<"a",".","p","n","g">>, <<"/","a",".","p","n","g">>,
               GRAVATAR_SRC}}
    \cup
    {Img(AVATAR_UC, Absent, Absent, <<","," ","x">>),
     Img(AVATAR_UC, Absent, Absent, SRCSET_TWO),
     Img(<<"x"," ">> \o AVATAR_LC, Absent, <<"/","b",".","p","n","g">>, Absent),
     Img(Absent, MY_AVATAR, <<" ">>, Absent),
     Img(Absent, MY_AVATAR, <<"/","c",".","p","n","g">>, Absent),
     Img(Absent, MY_AVATAR, Absent, SRCSET_TWO),
     Img(Absent, Absent, <<"/","a",".","p","n","g">>, Absent),
     Img(Absent, Absent, IK_HTTPS \o <<"a">>, Absent),
     Img(Absent, Absent, Absent, SRCSET_CDN),
     Text(CDN_TEXT)}

DAYS_AGO_TEXT == <<"3","\n"," "," ","d","a","y","s"," "," "," ","a","g","o">>

\* Time elements: without datetime, with a blank one, with one to normalize;
\* without text, with text to normalize; and text with relative-time phrases.
TimeKinds ==
    {Time(d, t) :
        d \in {Absent, <<>>, <<" ","5"," ","J","a","n","\n","2","0","2","4"," ">>},
        t \in {<<>>, DAYS_AGO_TEXT, <<"n","o","w">>}}
    \cup
    {Time(<<"2","0","2","4","-","0","1","-","0","5">>, <<>>),
     Text(<<"E","d","i","t","e","d"," ","5"," ","m","i","n","u","t","e","s"," ",
            "a","g","o">>),
     Text(<<"3"," ","d","a","y","s"," ","a","g","o">>),
     Text(<<"o","n"," ","4"," ","d","a","y","s"," ","a","g","o",","," ",
            "e","d","i","t","e","d"," "," ","7","\n","h","r","s"," ","A","G","O",".">>),
     Text(<<"x","3"," ","d","a","y","s"," ","a","g","o","s">>)}

\* The page of the end-to-end scenario: a profile link, a topic link, a
\* permalink, an avatar image and a time element.
ScenarioPage ==
    <<A(DISC_PROFILE \o <<"j","d","o","e">>, <<"J","."," ","D","o","e">>, Absent),
      A(DISC \o <<"c","a","t","e","g","o","r","i","e","s","/","g","e","n","e","r","a","l">>,
        <<"G","e","n","e","r","a","l">>, Absent),
      A(DISC \o <<"5","4","8","2","9","/","s","o","m","e","-","p","o","s","t">>,
        <<>>, Absent),
      Img(AVATAR_LC, Absent, <<"/","i","m","a","g","e","s","/","u","1",".","j","p","g">>,
          Absent),
      Time(<<"2","0","2","4","-","0","1","-","0","5","T","1","0",":","0","0",":",
             "0","0","Z">>, <<>>)>>

Pages ==
    SeqsUpTo(LinkKinds, MaxEls) \cup SeqsUpTo(ImgKinds, MaxEls)
    \cup SeqsUpTo(TimeKinds, MaxEls) \cup {ScenarioPage}

\* r.text() resolves with the page's text; cheerio parses it, the four
\* resolvers run and the 200 response is sent (server.js:285-323).
TextOk ==
    /\ pc = "text"
    /\ \E page \in Pages :
          /\ html' = <<page>>
          /\ res' = Append(res, Success(ScrapeData(url, page)))
    /\ pc' = "done"
    /\ UNCHANGED <<body, url, fetches>>
    /\ UNCHANGED <<callVars, presetVars>>

ScrapeInit ==
    /\ pc = "start"
    /\ body \in Bodies
    /\ url = <<>>
    /\ html = <<>>
    /\ res = <<>>
    /\ fetches = 0

Init == ScrapeInit /\ CallIdle /\ PresetsIdle

Next ==
    \/ Validate
    \/ FetchRejects
    \/ FetchNotOk
    \/ FetchOk
    \/ TextRejects
    \/ TextOk

\* One POST /scrape-discussion request.
Spec == Init /\ [][Next]_vars

(***************************************************************************)
(* absUrl called on its own                                                *)
(***************************************************************************)

Pads == SeqsUpTo(WS, MaxPad)

UrlRefs ==
    {l \o p \o t \o r :
        l \in Pads, r \in Pads,
        p \in {<<>>, <<"/">>, <<"/", "/">>, HTTP, HTTPS,
               <<"h","t","t","p",":","/">>, <<"x">>},
        t \in {<<>>, <<"a">>, <<"a"," ","b">>}}

CallAbsUrl ==
    /\ out = Absent
    /\ out' = absUrl(arg)
    /\ UNCHANGED <<arg, scrapeVars, presetVars>>

AbsUrlInit == arg \in UrlRefs /\ out = Absent /\ ScrapeIdle /\ PresetsIdle

SpecAbsUrl == AbsUrlInit /\ [][CallAbsUrl]_vars

(***************************************************************************)
(* Properties of POST /scrape-discussion                                   *)
(***************************************************************************)

\* r.text() has resolved with a page; the page.
Fetched == html # <<>>
Page == html[1]

\* The data of the 200 response, once it has been sent.
Data == res[1].data

\* A JavaScript string: neither undefined nor null.
IsString(v) == v # Absent /\ v # NoMatch

\* The page has no link, no img element, no time element, and its text
\* matches none of the raw-text patterns.
NoFieldMarkup(page) ==
    /\ \A i \in 1..Len(page) : page[i].tag \notin {"a", "img", "time"}
    /\ MatchCdn(HtmlText(page)) = NoMatch
    /\ MatchEdited(HtmlText(page)) = NoMatch
    /\ MatchAgo(HtmlText(page)) = NoMatch

\* Once the page text has arrived the request is answered, once, with 200 and
\* a record whose six scraped fields are strings, all "" for a page without
\* field markup.
CompleteRecord ==
    /\ pc = "done" /\ Len(res) = 1
    /\ res[1].ok /\ res[1].status = 200
    /\ \A f \in {"title", "topic", "topicUrl", "username", "avatar", "when"} :
          IsString(Data[f])
    /\ NoFieldMarkup(Page) =>
          \A f \in {"title", "topic", "topicUrl", "username", "avatar", "when"} :
             Data[f] = <<>>

\* C1 as stated: every page returned by a successful fetch is answered with a
\* complete record, all fields "" for a page without field markup, and the
\* record's url equals the url the request gave.
C1_Original ==
    Fetched => CompleteRecord /\ Data.url = body

\* C1 as amended: as C1, except that the record's url is the request's url
\* with surrounding whitespace trimmed.
C1_Amended ==
    Fetched => CompleteRecord /\ Data.url = Trim(body)

\* A page with text and no field markup was scraped for a request whose url
\* came with surrounding whitespace.
C1_Witness ==
    /\ Fetched /\ Page # <<>> /\ NoFieldMarkup(Page)
    /\ res[1].ok /\ Data.when = <<>> /\ body # Trim(body)

\* Whether the path segment right after "/discussion/" is purely numeric.
NumericSegment(href) ==
    LET seg == UpTo(From(href, Len(DISC) + 1), {"/"})
    IN  /\ StartsWith(href, DISC)
        /\ seg # <<>>
        /\ \A i \in 1..Len(seg) : seg[i] \in Digit

\* The links C2 rejects.
ClaimRejected(href) ==
    \/ StartsWith(href, DISC_PROFILE)
    \/ href = DISC_ROOT \/ href = DISC
    \/ NumericSegment(href)

\* The links C2 lets survive: href begins with "/discussion/", not rejected.
ClaimSurvivors(page) ==
    SelectSeq(page, LAMBDA e :
        /\ e.tag = "a" /\ AttrStartsWith(e.href, DISC)
        /\ ~ClaimRejected(Trim(e.href)))

\* C2: findTopic returns the trimmed text and the normalized href of the first
\* link in document order whose href begins with "/discussion/" and is not a
\* profile link, the discussion root or a link with a purely numeric segment
\* after "/discussion/"; both are "" when no link survives.
C2_Claim ==
    Fetched =>
        LET kept == ClaimSurvivors(Page)
        IN  IF kept = <<>>
            THEN Data.topic = <<>> /\ Data.topicUrl = <<>>
            ELSE /\ Data.topic = Trim(kept[1].text)
                 /\ Data.topicUrl = absUrl(kept[1].href)

\* Absolute: begins with "http://" or "https://", the scheme in either case.
IsAbsolute(u) == LitAt(u, 1, HTTP) \/ LitAt(u, 1, HTTPS)

\* C7: the avatar of every returned record is "" or an absolute URL.
C7_Claim ==
    Fetched => Data.avatar = <<>> \/ IsAbsolute(Data.avatar)

FirstWith(page, P(_)) ==
    LET at == {i \in 1..Len(page) : P(page[i])}
    IN  IF at = {} THEN 0 ELSE Min(at)

\* The first string of candidates that is not "", "" when all are.
FirstNonEmpty(candidates) ==
    LET at == {i \in 1..Len(candidates) : candidates[i] # <<>>}
    IN  IF at = {} THEN <<>> ELSE candidates[Min(at)]

\* The trimmed src (srcset, text) of the first element that satisfies P,
\* "" when there is none.
SrcOfFirst(page, P(_)) ==
    LET i == FirstWith(page, P) IN IF i = 0 THEN <<>> ELSE Trim(page[i].src)
SrcsetOfFirst(page, P(_)) ==
    LET i == FirstWith(page, P) IN IF i = 0 THEN <<>> ELSE Trim(page[i].srcset)
TextOfFirst(page, P(_)) ==
    LET i == FirstWith(page, P) IN IF i = 0 THEN <<>> ELSE Trim(page[i].text)

IsImg(e) == e.tag = "img"
IsLink(e) == e.tag = "a"
IsTime(e) == e.tag = "time"

\* An img whose class or alt contains "Avatar" or "avatar".
AvatarHinted(e) ==
    /\ IsImg(e)
    /\ \/ AttrIncludes(e.cls, AVATAR_UC) \/ AttrIncludes(e.cls, AVATAR_LC)
       \/ AttrIncludes(e.alt, AVATAR_UC) \/ AttrIncludes(e.alt, AVATAR_LC)

\* What each strategy of C3 can yield on page when a strategy looks at every
\* image it names: the normalized non-blank srcs of avatar-hinted images, the
\* normalized srcs on the CDN, the normalized first URLs of the srcsets of
\* avatar-hinted or CDN images.
HintedSrcs(page) ==
    {absUrl(page[i].src) : i \in {k \in 1..Len(page) :
        /\ AvatarHinted(page[k])
        /\ page[k].src # Absent /\ Trim(page[k].src) # <<>>}}
CdnSrcs(page) ==
    {absUrl(page[i].src) : i \in {k \in 1..Len(page) :
        IsImg(page[k]) /\ AttrIncludes(page[k].src, IMAGEKIT)}}
SrcsetUrls(page) ==
    {absUrl(parseFirstUrlFromSrcset(Trim(page[i].srcset))) :
        i \in {k \in 1..Len(page) :
            /\ IsImg(page[k]) /\ page[k].srcset # Absent
            /\ AvatarHinted(page[k]) \/ AttrIncludes(page[k].srcset, IMAGEKIT)
            /\ parseFirstUrlFromSrcset(Trim(page[k].srcset)) # <<>>}}

\* C3 as stated: an avatar-hinted img with a non-empty src wins over a
\* CDN-hosted src, which wins over a srcset-derived URL, which wins over a CDN
\* URL found in the raw text; "" only when all four yield nothing.
C3_Original ==
    Fetched =>
        IF HintedSrcs(Page) # {} THEN Data.avatar \in HintedSrcs(Page)
        ELSE IF CdnSrcs(Page) # {} THEN Data.avatar \in CdnSrcs(Page)
        ELSE IF SrcsetUrls(Page) # {} THEN Data.avatar \in SrcsetUrls(Page)
        ELSE IF MatchCdn(HtmlText(Page)) # NoMatch
             THEN Data.avatar = MatchCdn(HtmlText(Page))
        ELSE Data.avatar = <<>>

\* What each strategy yields when a selector stands for the first image that
\* matches it (with the attribute present), as firstAttr reads it.
HintedSrc(page) ==
    FirstNonEmpty(<<
        SrcOfFirst(page, LAMBDA e :
            IsImg(e) /\ AttrIncludes(e.cls, AVATAR_UC) /\ e.src # Absent),
        SrcOfFirst(page, LAMBDA e :
            IsImg(e) /\ AttrIncludes(e.cls, AVATAR_LC) /\ e.src # Absent),
        SrcOfFirst(page, LAMBDA e :
            IsImg(e) /\ AttrIncludes(e.alt, AVATAR_UC) /\ e.src # Absent),
        SrcOfFirst(page, LAMBDA e :
            IsImg(e) /\ AttrIncludes(e.alt, AVATAR_LC) /\ e.src # Absent)>>)
CdnSrc(page) ==
    SrcOfFirst(page, LAMBDA e : IsImg(e) /\ AttrIncludes(e.src, IMAGEKIT))
SrcsetUrl(page) ==
    parseFirstUrlFromSrcset(FirstNonEmpty(<<
        SrcsetOfFirst(page, LAMBDA e :
            IsImg(e) /\ AttrIncludes(e.cls, AVATAR_UC) /\ e.srcset # Absent),
        SrcsetOfFirst(page, LAMBDA e :
            IsImg(e) /\ AttrIncludes(e.cls, AVATAR_LC) /\ e.srcset # Absent),
        SrcsetOfFirst(page, LAMBDA e :
            IsImg(e) /\ AttrIncludes(e.alt, AVATAR_UC) /\ e.srcset # Absent),
        SrcsetOfFirst(page, LAMBDA e :
            IsImg(e) /\ AttrIncludes(e.alt, AVATAR_LC) /\ e.srcset # Absent),
        SrcsetOfFirst(page, LAMBDA e :
            IsImg(e) /\ AttrIncludes(e.srcset, IMAGEKIT))>>))

\* C3 as amended: the same priority among the four strategies, where the
\* avatar-hint strategy reads, for each of its four selectors in order, only
\* the first img the selector matches, the CDN strategy the first img whose
\* src contains the CDN host, and the srcset strategy the first URL of the
\* first non-blank srcset found the same way.
C3_Amended ==
    Fetched =>
        IF HintedSrc(Page) # <<>> THEN Data.avatar = absUrl(HintedSrc(Page))
        ELSE IF CdnSrc(Page) # <<>> THEN Data.avatar = absUrl(CdnSrc(Page))
        ELSE IF SrcsetUrl(Page) # <<>> THEN Data.avatar = absUrl(SrcsetUrl(Page))
        ELSE IF MatchCdn(HtmlText(Page)) # NoMatch
             THEN Data.avatar = MatchCdn(HtmlText(Page))
        ELSE Data.avatar = <<>>

\* A CDN-hosted img comes first in the page and an avatar-hinted img second:
\* the avatar-hinted src is returned.
C3_Witness ==
    /\ Fetched
    /\ Page = <<Img(Absent, Absent, IK_HTTPS \o <<"a">>, Absent),
                Img(AVATAR_UC, Absent, <<"/","a",".","p","n","g">>, Absent)>>
    /\ Data.avatar = ORIGIN \o <<"/","a",".","p","n","g">>

\* m[0].replace(/\s+/g, " ").trim() of a match, "" for null.
MatchText(m) == IF m = NoMatch THEN <<>> ELSE m

\* Whitespace-normalized: runs collapsed to one space, ends trimmed.
Normalized(s) == Trim(CollapseWs(s))

\* The datetime attribute of the first time element, "" when it has none.
FirstTimeDatetime(page) ==
    LET i == FirstWith(page, IsTime)
    IN  IF i = 0 \/ page[i].datetime = Absent THEN <<>> ELSE Trim(page[i].datetime)

\* The datetime attribute of the first time element that carries one, ""
\* when no time element does.
FirstDatetime(page) ==
    LET i == FirstWith(page, LAMBDA e : IsTime(e) /\ e.datetime # Absent)
    IN  IF i = 0 THEN <<>> ELSE Trim(page[i].datetime)

\* C5 as stated: the normalized first non-empty of the datetime attribute of
\* the first time element, the text of the first time element, an
\* "Edited N unit ago" match and a bare "N unit ago" match; in particular the
\* text "3\n  days   ago" of a first time element without datetime gives
\* "3 days ago".
C5_Original ==
    Fetched =>
        /\ Data.when = Normalized(FirstNonEmpty(<<
               FirstTimeDatetime(Page),
               TextOfFirst(Page, IsTime),
               MatchText(MatchEdited(HtmlText(Page))),
               MatchText(MatchAgo(HtmlText(Page)))>>))
        /\ (/\ FirstWith(Page, IsTime) # 0
            /\ Page[FirstWith(Page, IsTime)] = Time(Absent, DAYS_AGO_TEXT))
              => Data.when = <<"3"," ","d","a","y","s"," ","a","g","o">>

\* C5 as amended: candidate (1) is the datetime attribute of the first time
\* element that carries a datetime attribute, which need not be the first time
\* element; candidate (2), the text of the first time element, is used when
\* (1) is missing or blank.
C5_Amended ==
    Fetched =>
        Data.when = Normalized(FirstNonEmpty(<<
            FirstDatetime(Page),
            TextOfFirst(Page, IsTime),
            MatchText(MatchEdited(HtmlText(Page))),
            MatchText(MatchAgo(HtmlText(Page)))>>))

\* The only time element has no datetime and the text "3\n  days   ago".
C5_Witness ==
    /\ Fetched
    /\ Page = <<Time(Absent, DAYS_AGO_TEXT)>>
    /\ Data.when = <<"3"," ","d","a","y","s"," ","a","g","o">>

\* Step (1): for each profile-link selector in order, the text of the first
\* link it matches.
ProfileLinkText(page) ==
    FirstNonEmpty(<<
        TextOfFirst(page, LAMBDA e : IsLink(e) /\ AttrStartsWith(e.href, DISC_PROFILE)),
        TextOfFirst(page, LAMBDA e : IsLink(e) /\ AttrIncludes(e.href, DISC_PROFILE)),
        TextOfFirst(page, LAMBDA e : IsLink(e) /\ AttrIncludes(e.ctx, USERLINK)),
        TextOfFirst(page, LAMBDA e :
            IsLink(e) /\ AttrIncludes(e.ctx, USER) /\ AttrIncludes(e.href, PROFILE))>>)

\* Step (2): the text of the first link, among all links, with a profile href
\* and a text.
ScannedLinkText(page) ==
    TextOfFirst(page, LAMBDA e :
        /\ IsLink(e) /\ e.href # Absent
        /\ StartsWith(Trim(e.href), DISC_PROFILE)
        /\ Trim(e.text) # <<>>)

\* Step (3): the text of the first element whose class hints "author" or
\* "byline".
AuthorText(page) ==
    TextOfFirst(page, LAMBDA e :
        \/ AttrIncludes(e.cls, <<"a","u","t","h","o","r">>)
        \/ AttrIncludes(e.cls, <<"b","y","l","i","n","e">>))

Last(r) == r[Len(r)]

\* C9: the request ends in exactly one response; a url that fails the check
\* gives 400 and no fetch; a failed fetch gives 502; a failure elsewhere gives
\* 500; 200 with ok is sent only once the page was fetched and scraped; a
\* failure response is { ok: false, error: string }.
C9_Claim ==
    [][/\ Len(res') <= 1
       /\ (pc # "done" /\ pc' = "done") => Len(res') = 1
       /\ (Validate /\ pc' = "done") =>
             /\ ~StartsWith(Trim(IF body = Absent THEN <<>> ELSE body), URL_PREFIX)
             /\ Last(res').status = 400 /\ ~Last(res').ok
             /\ fetches' = 0
       /\ (FetchRejects \/ FetchNotOk) =>
             Last(res').status = 502 /\ ~Last(res').ok
       /\ TextRejects => Last(res').status = 500 /\ ~Last(res').ok
       /\ (res' # res /\ Last(res').ok) =>
             /\ TextOk
             /\ Last(res').status = 200
             /\ Last(res').data = ScrapeData(url, html'[1])
      ]_vars

(***************************************************************************)
(* Properties of absUrl                                                    *)
(***************************************************************************)

\* C4 as stated: "" for an empty or blank reference; the reference unchanged
\* when it begins with "http://" or "https://"; "https:" and the reference
\* when it begins with "//"; the forum origin and the reference when it begins
\* with "/"; the reference unchanged otherwise.
C4_Original ==
    out # Absent =>
        out = IF Trim(arg) = <<>> THEN <<>>
              ELSE IF StartsWith(arg, HTTP) \/ StartsWith(arg, HTTPS) THEN arg
              ELSE IF StartsWith(arg, <<"/", "/">>) THEN HTTPS_COLON \o arg
              ELSE IF StartsWith(arg, <<"/">>) THEN ORIGIN \o arg
              ELSE arg

\* C4 as amended: the rules are applied to the reference with its surrounding
\* whitespace trimmed, and what is returned is built from the trimmed
\* reference.
C4_Amended ==
    out # Absent =>
        LET s == Trim(arg)
            http == StartsWith(s, HTTP) \/ StartsWith(s, HTTPS)
            relative == StartsWith(s, <<"/", "/">>)
            rooted == StartsWith(s, <<"/">>)
        IN  /\ s = <<>> => out = <<>>
            /\ http => out = s
            /\ (~http /\ relative) => out = HTTPS_COLON \o s
            /\ (~http /\ ~relative /\ rooted) => out = ORIGIN \o s
            /\ (~http /\ ~rooted) => out = s

\* absUrl was called on a root-relative reference with surrounding whitespace.
C4_Witness ==
    /\ out # Absent /\ arg # Trim(arg)
    /\ StartsWith(Trim(arg), <<"/">>) /\ ~StartsWith(Trim(arg), <<"/", "/">>)
    /\ out = ORIGIN \o Trim(arg)

(***************************************************************************)
(* Properties of the preset store                                          *)
(***************************************************************************)

\* C10: whenever no POST /presets is in flight, the presets GET /presets
\* serves (presetsCache) are the presets last successfully written to the
\* file, and a file that holds presets holds those; so a POST answered 500
\* leaves the presets served unchanged, and overlapping saves never leave the
\* file with one request's presets and the cache with the other's.
C10_Claim ==
    (phase = "listening" /\ inflight = {}) =>
        /\ presetsCache = written
        /\ file.kind = "json" => presetsCache = Stored(file)

=============================================================================
